---- MODULE Spec2Model ----
(***************************************************************************)
(* A model of the reconciliation engine of the Google Drive sync program:  *)
(* SyncState (the persisted path -> record map), the pending-changes       *)
(* queue filled by the watcher thread, and SyncEngine's initial sync,      *)
(* drain-and-push, pull, main loop and shutdown (src/sync_engine.py), over *)
(* the DriveClient calls of src/drive_client.py and the watcher callbacks  *)
(* of src/file_monitor.py.                                                 *)
(***************************************************************************)
EXTENDS Integers, Sequences, FiniteSets, TLC

(***************************************************************************)
(* Bounds of the model.                                                    *)
(***************************************************************************)
\* timestamps handed out after the initial state (every write, local or
\* remote, takes the next one)
MaxTicks == 3
\* remote ids the remote store can hand out after the initial state
MaxNewIds == 1
\* remote ids that may exist in the initial state
InitIds == 2
\* timestamps already used in the initial state
InitClock == 2

\* changes of the folder the user makes in a run of the program
MaxUser == 2
\* changes of the remote root the other clients make in a run of the program
MaxOther == 1
\* changes of the folder the user makes beside the drains under test
MaxQueueOps == 3
\* changes of the folder the user makes beside the cycles of the main loop
MaxCycleUser == 1
\* calls of update_file_state and remove_file_state made on the store alone
MaxStoreOps == 2
\* changes the other clients make beside the cycles that reconcile them
MaxRemoteOps == 2

MaxClock == InitClock + MaxTicks
MaxIds == InitIds + MaxNewIds

Paths == {"a", "b"}
Kinds == {"deleted", "created", "modified"}
Ids == 1..MaxIds
\* Python's None, and the absent key of a record of the state map
None == 0
\* the content of a file that was opened for writing and never written
Empty == 0

VARIABLES
    localFiles,   \* the sync folder: path -> [data, mtime], domain = existing files
    remote,       \* the remote root: id -> [name, data, mtime], domain = existing ids
    nextId,       \* the next id the remote store assigns
    clock,        \* the last timestamp handed out
    state,        \* SyncState.state: path -> record, domain = tracked paths
    persisted,    \* the state file's document
    pending,      \* SyncEngine.pending_changes: kind -> set of paths
    running,      \* SyncEngine.running
    watching,     \* the observer thread of FileMonitor is delivering events
    pc,           \* the engine thread's position
    ret,          \* the caller of the running drain or pull
    kind,         \* _process_pending_changes: the kind whose set is iterated
    iter,         \* _process_pending_changes: the rest of the popped set
    drive_files,  \* _sync_drive_to_local: the listing fetched by this pass
    todo,         \* the entries of drive_files the pass has yet to visit
    todo_paths,   \* the paths the sweep (or the walk of the folder) has yet to visit
    faults,       \* the remote calls that may fail in this run
    runs,         \* how many more times the operation under test is applied
    budget,       \* the changes the user and the other clients may still make
    arrived,      \* the events accepted since a drain last left the queue empty
    owed,         \* accepted (kind, path) events not yet passed to pushLocal
    owedAtStop,   \* those of them accepted before the shutdown request
    snap,         \* state map, folder and remote root when the operation began
    log,          \* the engine's calls and effects since the operation began
    handler,      \* the watcher callback in flight: <<>> or <<kind, path, where>>
    failed        \* per-file operations that failed: <<op, path, cycles since>>

vars == <<localFiles, remote, nextId, clock, state, persisted, pending, running,
          watching, pc, ret, kind, iter, drive_files, todo, todo_paths, faults,
          runs, budget, arrived, owed, owedAtStop, snap, log, handler, failed>>

world == <<localFiles, remote, nextId, clock>>
engineLocals == <<kind, iter, drive_files, todo, todo_paths>>

(***************************************************************************)
(* Helpers on finite maps (Python dicts).                                  *)
(***************************************************************************)
Put(f, k, v) == [x \in DOMAIN f \cup {k} |-> IF x = k THEN v ELSE f[x]]
Drop(f, k) == [x \in DOMAIN f \ {k} |-> f[x]]
EmptyMap == [x \in {} |-> 0]

Count(s, e) == Cardinality({i \in DOMAIN s : s[i] = e})

\* hashlib.md5 of the file's content: a digest that identifies the content
CalculateChecksum(data) == data

(***************************************************************************)
(* SyncState (src/sync_engine.py, class SyncState).                        *)
(***************************************************************************)
\* get_file_state: the record, or None; the caller tests `state and
\* state.get('drive_id')`, true for a record that has a drive_id
HasDriveId(st, p) == p \in DOMAIN st /\ st[p].drive_id # None

\* `state and ...`: a dict is true when it has a key
Truthy(st, p) ==
    /\ p \in DOMAIN st
    /\ \/ st[p].drive_id # None
       \/ st[p].local_mtime # None
       \/ st[p].drive_mtime # None
       \/ st[p].checksum # None

NewRecord == [drive_id |-> None, local_mtime |-> None, drive_mtime |-> None,
              checksum |-> None]

\* an update_file_state that does not store the drive_id it is given
UpdateFileStateNoId(st, p, id, lm, dm, ck) ==
    LET old == IF p \in DOMAIN st THEN st[p] ELSE NewRecord
    IN  Put(st, p,
            [drive_id    |-> old.drive_id,
             local_mtime |-> IF lm # None THEN lm ELSE old.local_mtime,
             drive_mtime |-> IF dm # None THEN dm ELSE old.drive_mtime,
             checksum    |-> IF ck # None THEN ck ELSE old.checksum])

\* update_file_state: merge the fields that are not None into the record
UpdateFileState(st, p, id, lm, dm, ck) ==
    LET old == IF p \in DOMAIN st THEN st[p] ELSE NewRecord
    IN  Put(st, p,
            [drive_id    |-> IF id # None THEN id ELSE old.drive_id,
             local_mtime |-> IF lm # None THEN lm ELSE old.local_mtime,
             drive_mtime |-> IF dm # None THEN dm ELSE old.drive_mtime,
             checksum    |-> IF ck # None THEN ck ELSE old.checksum])

\* remove_file_state that leaves the record in place
RemoveFileStateKeeps(st, p) == st

\* remove_file_state
RemoveFileState(st, p) == IF p \in DOMAIN st THEN Drop(st, p) ELSE st

\* get_all_tracked_files
GetAllTrackedFiles(st) == DOMAIN st

\* the keys a record can have in the document
Fields == {"drive_id", "local_mtime", "drive_mtime", "checksum"}

\* a document no json.load can parse (a file truncated by open(.., 'w') and
\* not, or not wholly, written)
Unreadable == [valid |-> FALSE, paths |-> {}, members |-> {}]

\* json.dump(self.state, f): one object per path, with one member per key
\* the record has
Dump(st) ==
    [valid |-> TRUE,
     paths |-> DOMAIN st,
     members |-> UNION {{<<q, f, st[q][f]>> : f \in {g \in Fields : st[q][g] # None}} :
                           q \in DOMAIN st}]

\* the state file is not there
Absent == [valid |-> FALSE, paths |-> {}, members |-> {}, exists |-> FALSE]

\* a document that parses to a JSON value that is no object: null, an array
JsonValue(t) == [valid |-> TRUE, paths |-> {}, members |-> {}, json |-> t]

\* a Python object that is no dict: None, a list
NoDict(t) == [python |-> t]
IsDict(v) == "python" \notin DOMAIN v

\* load(): json.load of the document, {} when it cannot be parsed; what
\* json.load returns is assigned as it is
Load(doc) ==
    IF ~doc.valid
    THEN EmptyMap
    ELSE IF "json" \in DOMAIN doc
    THEN NoDict(doc.json)
    ELSE [q \in doc.paths |->
            [f \in Fields |->
                IF \E m \in doc.members : m[1] = q /\ m[2] = f
                THEN (CHOOSE m \in doc.members : m[1] = q /\ m[2] = f)[3]
                ELSE None]]

\* how a save() can end in this run: written, open() raised (the document
\* stays), or the write raised after open() truncated the file
SaveAnswers == IF "save" \in faults THEN {"ok", "open", "write"} ELSE {"ok"}

\* save(): the document after the call; the exception is logged and
\* swallowed
Save(doc, st, how) ==
    CASE how = "ok" -> Dump(st)
      [] how = "open" -> doc
      [] OTHER -> Unreadable

(***************************************************************************)
(* The pending-changes queue (SyncEngine.pending_changes, a defaultdict of *)
(* sets) and the watcher's callback.                                       *)
(***************************************************************************)
\* an enqueue that takes the path out of the sets of the other kinds
AddPendingExclusive(q, k, p) ==
    LET others == [x \in DOMAIN q \ {k} |-> q[x] \ {p}]
        kept == [x \in {y \in DOMAIN others : others[y] # {}} |-> others[x]]
    IN  Put(kept, k, (IF k \in DOMAIN q THEN q[k] ELSE {}) \cup {p})

\* self.pending_changes[event_type].add(relative_path)
AddPending(q, k, p) ==
    Put(q, k, (IF k \in DOMAIN q THEN q[k] ELSE {}) \cup {p})

\* self.pending_changes.pop(event_type, set())
PopValue(q, k) == IF k \in DOMAIN q THEN q[k] ELSE {}

\* _on_local_change, called on the observer thread for the events `evs` (a
\* sequence of <<kind, path>>) of one change of the folder; nothing is
\* delivered when the observer is not running
RECURSIVE AddAll(_, _)
AddAll(q, evs) ==
    IF evs = <<>> THEN q
    ELSE AddAll(AddPending(q, Head(evs)[1], Head(evs)[2]), Tail(evs))

SeqToSet(s) == {s[i] : i \in DOMAIN s}

OnLocalChange(evs) ==
    IF watching
    THEN /\ pending' = AddAll(pending, evs)
         /\ arrived' = arrived \o evs
         /\ owed' = owed \cup SeqToSet(evs)
    ELSE /\ pending' = pending
         /\ arrived' = arrived
         /\ owed' = owed

(***************************************************************************)
(* DriveClient (src/drive_client.py).  A call fails when the service       *)
(* answers with an HttpError, which every method catches.                  *)
(***************************************************************************)
Calls == {"list", "download", "upload", "delete", "meta"}

\* the answers call c can get in this run: TRUE is success
Answers(c) == IF c \in faults THEN BOOLEAN ELSE {TRUE}

\* list_files: the entries of the folder, [] after an HttpError
ListFiles(rem, ok) ==
    IF ok
    THEN {[id |-> i, name |-> rem[i].name, modifiedTime |-> rem[i].mtime] :
              i \in DOMAIN rem}
    ELSE {}

\* get_file_metadata(...).get('modifiedTime'), None after an HttpError
\* (an id the store does not have is an HttpError)
GetModifiedTime(rem, id, ok) ==
    IF ok /\ id \in DOMAIN rem THEN rem[id].mtime ELSE None

\* a delete_file that never reaches the store
DeleteFileNever(rem, id, ok) == rem

\* delete_file: the store after the call
DeleteFile(rem, id, ok) ==
    IF ok /\ id \in DOMAIN rem THEN Drop(rem, id) ELSE rem

\* upload_file: the returned id, None after an HttpError; files().update on
\* file_id when it is given, files().create otherwise
UploadedId(rem, file_id, fresh, ok) ==
    IF file_id # None
    THEN IF ok /\ file_id \in DOMAIN rem THEN file_id ELSE None
    ELSE IF ok THEN fresh ELSE None

\* upload_file: the store after a successful call; update replaces the
\* content (media_body only), create makes a file named after the local one
Uploaded(rem, file_id, fresh, name, data, now) ==
    IF file_id # None
    THEN [rem EXCEPT ![file_id].data = data, ![file_id].mtime = now]
    ELSE Put(rem, fresh, [name |-> name, data |-> data, mtime |-> now])

\* download_file: io.FileIO(path, 'wb') creates or truncates the local file
\* before the first chunk is asked for; an HttpError then returns False
Downloaded(files, rem, id, path, ok, now) ==
    IF ok /\ id \in DOMAIN rem
    THEN Put(files, path, [data |-> rem[id].data, mtime |-> now])
    ELSE Put(files, path, [data |-> Empty, mtime |-> now])

\* the store has served the content (get_media of an id it does not have
\* is an HttpError)
Fetched(rem, id, ok) == ok /\ id \in DOMAIN rem

\* a download_file that returns True after an HttpError too
DownloadOkAlways(rem, id, ok) == TRUE

\* download_file: the returned bool
DownloadOk(rem, id, ok) == Fetched(rem, id, ok)

\* a _sync_local_to_drive that makes a record for the path of every event
SyncLocalToDriveRecords(p, k, upOk, delOk, metaOk) ==
    /\ state' = Put(state, p, IF p \in DOMAIN state THEN state[p] ELSE NewRecord)
    /\ \E how \in SaveAnswers : persisted' = Save(persisted, state', how)
    /\ log' = log \o << <<"push_" \o k, p,
                           IF HasDriveId(state, p) THEN state[p].drive_id ELSE None>> >>
    /\ UNCHANGED <<remote, nextId, clock>>

(***************************************************************************)
(* SyncEngine._sync_local_to_drive(relative_path, event_type): the whole   *)
(* call, one file.  It leaves the folder alone.                            *)
(***************************************************************************)
SyncLocalToDrive(p, k, upOk, delOk, metaOk) ==
    LET drive_id == IF HasDriveId(state, p) THEN state[p].drive_id ELSE None
        pushed == <<"push_" \o k, p, drive_id>>
    IN  IF k = "deleted"
        THEN IF HasDriveId(state, p)
             THEN /\ remote' = DeleteFile(remote, drive_id, delOk)
                  /\ state' = RemoveFileState(state, p)
                  /\ \E how \in SaveAnswers : persisted' = Save(persisted, state', how)
                  /\ log' = log \o <<pushed, <<"delete", p, drive_id>>,
                                     <<"remove", p, drive_id>> >>
                  /\ UNCHANGED <<nextId, clock>>
             ELSE /\ log' = log \o <<pushed>>
                  /\ UNCHANGED <<remote, state, persisted, nextId, clock>>
        ELSE IF p \notin DOMAIN localFiles
        THEN /\ log' = log \o <<pushed>>
             /\ UNCHANGED <<remote, state, persisted, nextId, clock>>
        ELSE LET uploaded_id == UploadedId(remote, drive_id, nextId, upOk)
             IN  IF uploaded_id # None
                 THEN /\ clock < MaxClock
                      /\ drive_id = None => nextId <= MaxIds
                      /\ clock' = clock + 1
                      /\ nextId' = IF drive_id = None THEN nextId + 1 ELSE nextId
                      /\ remote' = Uploaded(remote, drive_id, nextId, p,
                                            localFiles[p].data, clock')
                      /\ state' = UpdateFileState(state, p, uploaded_id,
                                      localFiles[p].mtime,
                                      GetModifiedTime(remote', uploaded_id, metaOk),
                                      CalculateChecksum(localFiles[p].data))
                      /\ \E how \in SaveAnswers : persisted' = Save(persisted, state', how)
                      /\ log' = log \o <<pushed, <<"upload", p, uploaded_id>>,
                                         <<"update", p, uploaded_id>> >>
                 ELSE /\ log' = log \o <<pushed, <<"upload", p, None>> >>
                      /\ UNCHANGED <<remote, state, persisted, nextId, clock>>

(***************************************************************************)
(* Bookkeeping of the checks: what the operation began with, and what the  *)
(* engine has done since.                                                  *)
(***************************************************************************)
Snapshot == [state |-> state, localFiles |-> localFiles, remote |-> remote,
             budget |-> budget]

Begin ==
    /\ snap' = Snapshot
    /\ log' = <<>>

\* the calls the step has made
NewCalls == SubSeq(log', Len(log) + 1, Len(log'))

\* the step has made the remote call op for path p
Attempted(op, p) ==
    \E i \in DOMAIN NewCalls :
        /\ NewCalls[i][2] = p
        /\ NewCalls[i][1] \in (IF op = "download" THEN {"download", "download_failed"}
                                                    ELSE {op})

\* and the call has failed: upload_file returned None, download_file or
\* delete_file returned False
FailedNow(op, p) ==
    \E i \in DOMAIN NewCalls :
        /\ NewCalls[i][2] = p
        /\ CASE op = "upload" -> NewCalls[i][1] = "upload" /\ NewCalls[i][3] = None
             [] op = "download" -> NewCalls[i][1] = "download_failed"
             [] OTHER -> NewCalls[i][1] = "delete" /\ NewCalls[i][3] \in DOMAIN remote'

\* the failed operations after the step: a new attempt replaces the entry
Tracked ==
    {e \in failed : ~Attempted(e[1], e[2])} \cup
    {e \in {"upload", "download", "delete"} \X Paths \X {0} : FailedNow(e[1], e[2])}

(***************************************************************************)
(* SyncEngine._sync_drive_to_local, one step per statement group.          *)
(***************************************************************************)
\* drive_files = self.drive_client.list_files(self.drive_folder_id)
PullList ==
    /\ pc = "list"
    /\ \E ok \in Answers("list") :
          /\ drive_files' = ListFiles(remote, ok)
          /\ log' = Append(log, <<IF ok THEN "list" ELSE "list_failed", "", None>>)
    /\ todo' = drive_files'
    /\ pc' = "entries"
    /\ UNCHANGED <<world, state, persisted, pending, running, watching, ret, kind,
                   iter, todo_paths, faults, runs, budget, arrived, owed, owedAtStop, snap>>
    /\ UNCHANGED <<handler, failed>>

\* a should_download that is true of every entry
ShouldDownloadAlways(file) == TRUE

\* should_download of one entry of the listing
ShouldDownload(file) ==
    \/ file.name \notin DOMAIN localFiles
    \/ /\ Truthy(state, file.name)
       /\ state[file.name].drive_mtime # file.modifiedTime

\* the body of `for file in drive_files`, for the next entry
PullEntry ==
    /\ pc = "entries"
    /\ \E file \in todo :
          /\ todo' = todo \ {file}
          /\ IF ShouldDownload(file)
             THEN \E ok \in Answers("download") :
                    /\ clock < MaxClock
                    /\ clock' = clock + 1
                    /\ localFiles' = Downloaded(localFiles, remote, file.id,
                                                file.name, ok, clock')
                    /\ OnLocalChange(<< <<IF file.name \in DOMAIN localFiles
                                           THEN "modified" ELSE "created",
                                          file.name>> >>)
                    /\ IF DownloadOk(remote, file.id, ok)
                       THEN /\ state' = UpdateFileState(state, file.name, file.id,
                                            localFiles'[file.name].mtime,
                                            file.modifiedTime,
                                            CalculateChecksum(localFiles'[file.name].data))
                            /\ \E how \in SaveAnswers : persisted' = Save(persisted, state', how)
                            /\ log' = log \o << <<IF Fetched(remote, file.id, ok)
                                                   THEN "download" ELSE "download_failed",
                                                  file.name, file.id>>,
                                               <<"update", file.name, file.id>> >>
                       ELSE /\ state' = state
                            /\ persisted' = persisted
                            /\ log' = Append(log, <<"download_failed", file.name, file.id>>)
             ELSE UNCHANGED <<localFiles, clock, state, persisted, pending, arrived, owed, log>>
    /\ UNCHANGED <<remote, nextId, running, watching, pc, ret, kind, iter,
                   drive_files, todo_paths, faults, runs, budget, owedAtStop, snap>>
    /\ failed' = Tracked
    /\ UNCHANGED handler

\* tracked_files = self.sync_state.get_all_tracked_files()
PullTracked ==
    /\ pc = "entries"
    /\ todo = {}
    /\ todo_paths' = GetAllTrackedFiles(state)
    /\ pc' = "sweep"
    /\ UNCHANGED <<world, state, persisted, pending, running, watching, ret, kind,
                   iter, drive_files, todo, faults, runs, budget, arrived, owed, owedAtStop, snap, log>>
    /\ UNCHANGED <<handler, failed>>

drive_file_ids == {file.id : file \in drive_files}

\* the body of `for relative_path in tracked_files`, for the next path
PullSweep ==
    /\ pc = "sweep"
    /\ \E p \in todo_paths :
          /\ todo_paths' = todo_paths \ {p}
          /\ IF Truthy(state, p) /\ state[p].drive_id \notin drive_file_ids
             THEN /\ IF p \in DOMAIN localFiles
                     THEN /\ localFiles' = Drop(localFiles, p)
                          /\ OnLocalChange(<< <<"deleted", p>> >>)
                          /\ log' = log \o << <<"unlink", p, state[p].drive_id>>,
                                             <<"remove", p, state[p].drive_id>> >>
                     ELSE /\ log' = Append(log, <<"remove", p, state[p].drive_id>>)
                          /\ UNCHANGED <<localFiles, pending, arrived, owed>>
                  /\ state' = RemoveFileState(state, p)
                  /\ \E how \in SaveAnswers : persisted' = Save(persisted, state', how)
             ELSE UNCHANGED <<localFiles, state, persisted, pending, arrived, owed, log>>
    /\ UNCHANGED <<remote, nextId, clock, running, watching, pc, ret, kind, iter,
                   drive_files, todo, faults, runs, budget, owedAtStop, snap>>
    /\ UNCHANGED <<handler, failed>>

\* the pass returns to its caller: initial_sync goes on to walk the folder,
\* the main loop goes to sleep
PullReturn ==
    /\ pc = "sweep"
    /\ todo_paths = {}
    /\ pc' = CASE ret = "init" -> "walk"
               [] ret = "loop" -> "sleep"
               [] OTHER -> "returned"
    /\ todo_paths' = IF ret = "init" THEN DOMAIN localFiles ELSE {}
    /\ UNCHANGED <<world, state, persisted, pending, running, watching, ret, kind,
                   iter, drive_files, todo, faults, runs, budget, arrived, owed, owedAtStop, snap, log>>
    /\ UNCHANGED <<handler, failed>>

\* an exception that is no HttpError raised in the body of the pass (an
\* OSError of mkdir, FileIO or stat at a download, of unlink in the sweep; a
\* connection error of the http library): the `except Exception` around the
\* whole body logs it and the pass returns
PullRaise ==
    /\ "io" \in faults
    /\ \/ /\ pc = "entries"
          /\ \E file \in todo :
                /\ ShouldDownload(file)
                /\ log' = Append(log, <<"raised", file.name, file.id>>)
       \/ /\ pc = "sweep"
          /\ \E p \in todo_paths :
                /\ Truthy(state, p)
                /\ state[p].drive_id \notin drive_file_ids
                /\ p \in DOMAIN localFiles
                /\ log' = Append(log, <<"raised", p, state[p].drive_id>>)
    /\ pc' = CASE ret = "init" -> "walk"
               [] ret = "loop" -> "sleep"
               [] OTHER -> "returned"
    /\ todo_paths' = IF ret = "init" THEN DOMAIN localFiles ELSE todo_paths
    /\ UNCHANGED <<world, state, persisted, pending, running, watching, ret, kind,
                   iter, drive_files, todo, faults, runs, budget, arrived, owed,
                   owedAtStop, snap, handler, failed>>

(***************************************************************************)
(* SyncEngine._process_pending_changes.                                    *)
(***************************************************************************)
\* the kinds in the order they are popped: 'deleted', then the list
\* ['created', 'modified']
KindOrderDeletedLast == <<"created", "modified", "deleted">>
KindOrder == <<"deleted", "created", "modified">>
Position(k) == CHOOSE i \in DOMAIN KindOrder : KindOrder[i] = k

\* a _process_pending_changes after which a pull is made wherever it was
\* called from
DrainReturnPulls == "list"

\* where _process_pending_changes returns to: the pull of the cycle, or
\* the end of stop()
DrainReturn ==
    CASE ret = "loop" -> "list"
      [] ret = "stop" -> "stopped"
      [] OTHER -> "returned"

\* if not self.pending_changes: return
DrainCheck ==
    /\ pc = "check"
    /\ IF DOMAIN pending = {}
       THEN /\ pc' = DrainReturn
            /\ kind' = kind
            /\ arrived' = <<>>
       ELSE /\ pc' = "pop"
            /\ kind' = KindOrder[1]
            /\ arrived' = arrived
    /\ UNCHANGED <<world, state, persisted, pending, running, watching, ret, iter,
                   drive_files, todo, todo_paths, faults, runs, budget, owed,
                   owedAtStop, snap, log>>
    /\ UNCHANGED <<handler, failed>>

\* self.pending_changes.pop(event_type, set()): of 'deleted' first, of the
\* next kind when the popped set is exhausted
DrainPop ==
    /\ \/ pc = "pop" /\ kind' = kind
       \/ /\ pc = "iter"
          /\ iter = {}
          /\ Position(kind) < Len(KindOrder)
          /\ kind' = KindOrder[Position(kind) + 1]
    /\ iter' = PopValue(pending, kind')
    /\ pending' = Drop(pending, kind')
    /\ pc' = "iter"
    /\ UNCHANGED <<world, state, persisted, running, watching, ret, drive_files,
                   todo, todo_paths, faults, runs, budget, arrived, owed, owedAtStop,
                   snap, log>>
    /\ handler' = IF handler = <<>> THEN handler
                  ELSE IF handler[3] = "iter" THEN <<handler[1], handler[2], "gone">>
                  ELSE IF handler[3] = "dict" /\ handler[1] = kind'
                       THEN <<handler[1], handler[2], "iter">>
                  ELSE handler
    /\ UNCHANGED failed

\* self._sync_local_to_drive(relative_path, event_type) for the next path of
\* the popped set
DrainPush ==
    /\ pc = "iter"
    /\ \E p \in iter :
          /\ iter' = iter \ {p}
          /\ \E upOk \in Answers("upload"), delOk \in Answers("delete"),
                metaOk \in Answers("meta") :
                SyncLocalToDrive(p, kind, upOk, delOk, metaOk)
          /\ owed' = owed \ {<<kind, p>>}
          /\ owedAtStop' = owedAtStop \ {<<kind, p>>}
    /\ UNCHANGED <<localFiles, pending, running, watching, pc, ret, kind,
                   drive_files, todo, todo_paths, faults, runs, budget, arrived, snap>>
    /\ failed' = Tracked
    /\ UNCHANGED handler

\* _sync_local_to_drive for the next path raises an exception that is no
\* HttpError before any remote call has had an effect (MediaFileUpload
\* cannot open the file, a connection error): its own `except Exception`
\* logs it, and the loop of the drain goes on to the next path
DrainPushRaise ==
    /\ "io" \in faults
    /\ pc = "iter"
    /\ \E p \in iter :
          /\ iter' = iter \ {p}
          /\ log' = log \o << <<"push_" \o kind, p,
                                 IF HasDriveId(state, p) THEN state[p].drive_id ELSE None>>,
                               <<"raised", p, None>> >>
          /\ owed' = owed \ {<<kind, p>>}
          /\ owedAtStop' = owedAtStop \ {<<kind, p>>}
    /\ UNCHANGED <<world, state, persisted, pending, running, watching, pc, ret, kind,
                   drive_files, todo, todo_paths, faults, runs, budget, arrived, snap,
                   handler, failed>>

\* self.pending_changes.clear(), after the set of 'modified' is exhausted,
\* and the return to the caller
DrainClear ==
    /\ pc = "iter"
    /\ iter = {}
    /\ Position(kind) = Len(KindOrder)
    /\ pending' = EmptyMap
    /\ arrived' = <<>>
    /\ pc' = DrainReturn
    /\ UNCHANGED <<world, state, persisted, running, watching, ret, kind, iter,
                   drive_files, todo, todo_paths, faults, runs, budget, owed,
                   owedAtStop, snap, log>>
    /\ handler' = IF handler = <<>> THEN handler
                  ELSE <<handler[1], handler[2], "gone">>
    /\ UNCHANGED failed

(***************************************************************************)
(* SyncEngine.initial_sync, start and stop.                                *)
(***************************************************************************)
\* start() enters initial_sync, which pulls first
Start ==
    /\ pc = "start"
    /\ pc' = "list"
    /\ ret' = "init"
    /\ Begin
    /\ UNCHANGED <<world, state, persisted, pending, running, watching, kind, iter,
                   drive_files, todo, todo_paths, faults, runs, budget, arrived, owed, owedAtStop>>
    /\ UNCHANGED <<handler, failed>>

\* the body of `for file_path in self.local_folder.rglob('*')`, for the next
\* path: a file that has no record with a drive_id is pushed as 'created'
InitialSyncWalk ==
    /\ pc = "walk"
    /\ \E p \in todo_paths :
          /\ todo_paths' = todo_paths \ {p}
          /\ IF p \in DOMAIN localFiles /\ ~HasDriveId(state, p)
             THEN \E upOk \in Answers("upload"), delOk \in Answers("delete"),
                     metaOk \in Answers("meta") :
                     SyncLocalToDrive(p, "created", upOk, delOk, metaOk)
             ELSE UNCHANGED <<remote, nextId, clock, state, persisted, log>>
    /\ UNCHANGED <<localFiles, pending, running, watching, pc, ret, kind, iter,
                   drive_files, todo, faults, runs, budget, arrived, owed, owedAtStop, snap>>
    /\ UNCHANGED <<handler, failed>>

\* initial_sync returns to start()
InitialSyncReturn ==
    /\ pc = "walk"
    /\ todo_paths = {}
    /\ pc' = "monitor"
    /\ UNCHANGED <<world, state, persisted, pending, running, watching, ret, kind,
                   iter, drive_files, todo, todo_paths, faults, runs, budget, arrived, owed,
                   owedAtStop, snap, log>>
    /\ UNCHANGED <<handler, failed>>

\* self.file_monitor.start(); self.running = True
StartMonitor ==
    /\ pc = "monitor"
    /\ watching' = TRUE
    /\ running' = TRUE
    /\ pc' = "loop"
    /\ UNCHANGED <<world, state, persisted, pending, ret, kind, iter, drive_files,
                   todo, todo_paths, faults, runs, budget, arrived, owed, owedAtStop, snap, log>>
    /\ UNCHANGED <<handler, failed>>

\* while self.running: the next cycle begins with _process_pending_changes
LoopCheck ==
    /\ pc = "loop"
    /\ IF running
       THEN /\ pc' = "check"
            /\ ret' = "loop"
       ELSE /\ pc' = "stop"
            /\ ret' = ret
    /\ Begin
    /\ UNCHANGED <<world, state, persisted, pending, running, watching, kind, iter,
                   drive_files, todo, todo_paths, faults, runs, budget, arrived, owed, owedAtStop>>
    /\ failed' = {<<e[1], e[2], 1>> : e \in failed}
    /\ UNCHANGED handler

\* time.sleep(Config.SYNC_INTERVAL)
Sleep ==
    /\ pc = "sleep"
    /\ pc' = "loop"
    /\ UNCHANGED <<world, state, persisted, pending, running, watching, ret, kind,
                   iter, drive_files, todo, todo_paths, faults, runs, budget, arrived, owed,
                   owedAtStop, snap, log>>
    /\ UNCHANGED <<handler, failed>>

\* the positions of the engine thread inside the try block of start()
InTry ==
    \/ pc \in {"loop", "sleep"}
    \/ pc \in {"check", "pop", "iter", "list", "entries", "sweep"} /\ ret = "loop"

\* KeyboardInterrupt, the shutdown request: it is raised in the main thread
\* between two statements of the try block, is no Exception (no handler of
\* _sync_local_to_drive or _sync_drive_to_local catches it), and reaches
\* `finally: self.stop()`
Interrupt ==
    /\ InTry
    /\ pc' = "stop"
    /\ owedAtStop' = owed
    /\ UNCHANGED <<world, state, persisted, pending, running, watching, ret, kind,
                   iter, drive_files, todo, todo_paths, faults, runs, budget, arrived, owed, snap, log>>
    /\ handler' = IF handler # <<>> /\ handler[3] = "iter"
                  THEN <<handler[1], handler[2], "gone">>
                  ELSE handler
    /\ UNCHANGED failed

\* the positions of the engine thread in start() before the try block
BeforeTry == ret = "init" /\ pc \in {"list", "entries", "sweep", "walk", "monitor"}

\* KeyboardInterrupt before the try block: it leaves start() at once, with
\* no stop() and no final drain (the observer has not been started)
InterruptInit ==
    /\ BeforeTry
    /\ pc' = "aborted"
    /\ UNCHANGED <<world, state, persisted, pending, running, watching, ret, kind,
                   iter, drive_files, todo, todo_paths, faults, runs, budget, arrived,
                   owed, owedAtStop, snap, log, handler, failed>>

\* stop(): the flag, the watcher, then the final _process_pending_changes
Stop ==
    /\ pc = "stop"
    /\ handler = <<>>
    /\ running' = FALSE
    /\ watching' = FALSE
    /\ pc' = "check"
    /\ ret' = "stop"
    /\ Begin
    /\ UNCHANGED <<world, state, persisted, pending, kind, iter, drive_files, todo,
                   todo_paths, faults, runs, budget, arrived, owed, owedAtStop>>
    /\ UNCHANGED <<handler, failed>>

(***************************************************************************)
(* The environment: the user of the folder, whose changes the observer     *)
(* reports through FileChangeHandler (src/file_monitor.py), and the other  *)
(* users of the remote store.                                              *)
(***************************************************************************)
\* a file is written: on_created for a new file, on_modified for an old one
UserWrite ==
    /\ budget.user > 0
    /\ clock < MaxClock
    /\ budget' = [budget EXCEPT !.user = @ - 1]
    /\ \E p \in Paths :
          /\ clock' = clock + 1
          /\ localFiles' = Put(localFiles, p, [data |-> clock', mtime |-> clock'])
          /\ OnLocalChange(<< <<IF p \in DOMAIN localFiles THEN "modified" ELSE "created",
                                p>> >>)
    /\ UNCHANGED <<remote, nextId, state, persisted, running, watching, pc, ret, kind,
                   iter, drive_files, todo, todo_paths, faults, runs, owedAtStop,
                   snap, log>>
    /\ failed' = {}
    /\ UNCHANGED handler

\* a file is removed: on_deleted
UserDelete ==
    /\ budget.user > 0
    /\ budget' = [budget EXCEPT !.user = @ - 1]
    /\ \E p \in DOMAIN localFiles :
          /\ localFiles' = Drop(localFiles, p)
          /\ OnLocalChange(<< <<"deleted", p>> >>)
    /\ UNCHANGED <<remote, nextId, clock, state, persisted, running, watching, pc, ret,
                   kind, iter, drive_files, todo, todo_paths, faults, runs, owedAtStop,
                   snap, log>>
    /\ failed' = {}
    /\ UNCHANGED handler

\* _on_local_change in two steps.  self.pending_changes[event_type].add(path)
\* first evaluates self.pending_changes[event_type] (the defaultdict makes
\* the empty set of a missing kind) and then calls add on that set; the
\* engine thread can run in between, for no lock guards the queue.
\* A file is written and the callback has fetched the set of its kind:
WatcherFetch ==
    /\ watching
    /\ handler = <<>>
    /\ budget.user > 0
    /\ clock < MaxClock
    /\ budget' = [budget EXCEPT !.user = @ - 1]
    /\ \E p \in Paths :
          LET k == IF p \in DOMAIN localFiles THEN "modified" ELSE "created"
          IN  /\ clock' = clock + 1
              /\ localFiles' = Put(localFiles, p, [data |-> clock', mtime |-> clock'])
              /\ pending' = Put(pending, k, PopValue(pending, k))
              /\ handler' = <<k, p, "dict">>
    /\ failed' = {}
    /\ UNCHANGED <<remote, nextId, state, persisted, running, watching, pc, ret, kind,
                   iter, drive_files, todo, todo_paths, faults, runs, arrived, owed,
                   owedAtStop, snap, log>>

\* the paths of the popped set the drain has pushed already
Visited == {log[i][2] : i \in {j \in DOMAIN log : log[j][1] = "push_" \o kind}}

\* The callback calls add on the set it fetched.  The set is still in the
\* queue ("dict"); or the drain has popped it and is iterating it ("iter"):
\* a path that is new to the set joins the iteration when that has not
\* begun, is lost when the set was empty and its iteration is over, and
\* otherwise changes the size of a set under iteration, on which the `for`
\* of the drain raises RuntimeError outside every handler of the engine and
\* start() is left through `finally: self.stop()`; or the set is no longer
\* used by anyone ("gone").
WatcherAdd ==
    /\ handler # <<>>
    /\ handler' = <<>>
    /\ LET k == handler[1]
           p == handler[2]
       IN  /\ owed' = owed \cup {<<k, p>>}
           /\ CASE handler[3] = "dict" ->
                     /\ pending' = AddPending(pending, k, p)
                     /\ arrived' = Append(arrived, <<k, p>>)
                     /\ UNCHANGED <<iter, pc, log, owedAtStop>>
                [] handler[3] = "iter" /\ p \in iter \cup Visited ->
                     UNCHANGED <<pending, arrived, iter, pc, log, owedAtStop>>
                [] handler[3] = "iter" /\ p \notin iter \cup Visited ->
                     \/ /\ Visited = {}
                        /\ iter' = iter \cup {p}
                        /\ UNCHANGED <<pending, arrived, pc, log, owedAtStop>>
                     \/ /\ iter \cup Visited # {}
                        /\ pc' = "stop"
                        /\ log' = Append(log, <<"RuntimeError", p, None>>)
                        /\ owedAtStop' = owed'
                        /\ UNCHANGED <<pending, arrived, iter>>
                     \/ /\ iter \cup Visited = {}
                        /\ UNCHANGED <<pending, arrived, iter, pc, log, owedAtStop>>
                [] OTHER ->
                     UNCHANGED <<pending, arrived, iter, pc, log, owedAtStop>>
    /\ UNCHANGED <<world, state, persisted, running, watching, ret, kind, drive_files,
                   todo, todo_paths, faults, runs, budget, snap, failed>>

\* another client changes the content of a remote file
RemoteModify ==
    /\ budget.other > 0
    /\ clock < MaxClock
    /\ budget' = [budget EXCEPT !.other = @ - 1]
    /\ \E id \in DOMAIN remote :
          /\ clock' = clock + 1
          /\ remote' = [remote EXCEPT ![id].data = clock', ![id].mtime = clock']
    /\ UNCHANGED <<localFiles, nextId, state, persisted, pending, running, watching,
                   pc, ret, kind, iter, drive_files, todo, todo_paths, faults, runs,
                   arrived, owed, owedAtStop, snap, log>>
    /\ failed' = {}
    /\ UNCHANGED handler

\* another client deletes a remote file
RemoteDelete ==
    /\ budget.other > 0
    /\ budget' = [budget EXCEPT !.other = @ - 1]
    /\ \E id \in DOMAIN remote : remote' = Drop(remote, id)
    /\ UNCHANGED <<localFiles, nextId, clock, state, persisted, pending, running,
                   watching, pc, ret, kind, iter, drive_files, todo, todo_paths,
                   faults, runs, arrived, owed, owedAtStop, snap, log>>
    /\ failed' = {}
    /\ UNCHANGED handler

(***************************************************************************)
(* Initial states.                                                         *)
(***************************************************************************)
Maps(D, R) == UNION {[S -> R] : S \in SUBSET D}

InitRemotes ==
    Maps(1..InitIds, {[name |-> n, data |-> t, mtime |-> t] :
                          n \in Paths, t \in 1..InitClock})
InitLocals == Maps(Paths, {[data |-> 1, mtime |-> 1]})
InitStates ==
    Maps(Paths, {[drive_id |-> i, local_mtime |-> 1, drive_mtime |-> t, checksum |-> 1] :
                     i \in 1..InitIds, t \in 1..InitClock})

\* the engine just constructed (SyncEngine.__init__, SyncState.load), over
\* any folder, remote root and state file
InitEngine ==
    /\ nextId = InitIds + 1
    /\ clock = InitClock
    /\ persisted = Dump(state)
    /\ pending = EmptyMap
    /\ kind = "deleted"
    /\ iter = {}
    /\ drive_files = {}
    /\ todo = {}
    /\ todo_paths = {}
    /\ arrived = <<>>
    /\ owed = {}
    /\ owedAtStop = {}
    /\ snap = Snapshot
    /\ log = <<>>
    /\ handler = <<>>
    /\ failed = {}

(***************************************************************************)
(* The program: start() over a folder, a remote root and a state file,     *)
(* with the watcher thread, the user, the other clients of the remote      *)
(* store and the interrupt running beside the engine thread.               *)
(***************************************************************************)
\* what a path can be when the program starts: on neither side, on both
\* sides with a record that agrees with the remote file, in the folder
\* only, or in the remote root only
Situations == {"absent", "synced", "local", "remote"}
PathId(p) == IF p = "a" THEN 1 ELSE 2

WorldLocal(sit) ==
    [p \in {q \in Paths : sit[q] \in {"synced", "local"}} |-> [data |-> 1, mtime |-> 1]]
WorldRemote(sit) ==
    [i \in {PathId(q) : q \in {r \in Paths : sit[r] \in {"synced", "remote"}}} |->
        [name |-> CHOOSE q \in Paths : PathId(q) = i, data |-> 1, mtime |-> 1]]
WorldState(sit) ==
    [p \in {q \in Paths : sit[q] = "synced"} |->
        [drive_id |-> PathId(p), local_mtime |-> 1, drive_mtime |-> 1, checksum |-> 1]]

Init ==
    /\ \E sit \in [Paths -> Situations] :
          /\ localFiles = WorldLocal(sit)
          /\ remote = WorldRemote(sit)
          /\ state = WorldState(sit)
    /\ faults = {}
    /\ budget = [user |-> MaxUser, other |-> MaxOther]
    /\ pc = "start"
    /\ ret = "init"
    /\ InitEngine
    /\ running = FALSE
    /\ watching = FALSE
    /\ runs = 0

Engine ==
    \/ Start
    \/ PullList
    \/ PullEntry
    \/ PullTracked
    \/ PullSweep
    \/ PullReturn
    \/ InitialSyncWalk
    \/ InitialSyncReturn
    \/ StartMonitor
    \/ LoopCheck
    \/ DrainCheck
    \/ DrainPop
    \/ DrainPush
    \/ DrainClear
    \/ Sleep
    \/ Stop

Next ==
    \/ Engine
    \/ Interrupt
    \/ InterruptInit
    \/ UserWrite
    \/ UserDelete
    \/ RemoteModify
    \/ RemoteDelete

Spec == Init /\ [][Next]_vars


(***************************************************************************)
(* The operations on their own: each is applied to any folder, remote root *)
(* and state file, and then applied again with nothing changed in between. *)
(***************************************************************************)
\* _sync_drive_to_local is called again
AgainPull ==
    /\ pc = "returned"
    /\ runs > 0
    /\ runs' = runs - 1
    /\ pc' = "list"
    /\ Begin
    /\ UNCHANGED <<world, state, persisted, pending, running, watching, ret, kind,
                   iter, drive_files, todo, todo_paths, faults, budget, arrived, owed,
                   owedAtStop>>
    /\ UNCHANGED <<handler, failed>>

\* initial_sync is called again
AgainInitialSync ==
    /\ pc = "monitor"
    /\ runs > 0
    /\ runs' = runs - 1
    /\ pc' = "list"
    /\ log' = <<>>
    /\ UNCHANGED <<world, state, persisted, pending, running, watching, ret, kind,
                   iter, drive_files, todo, todo_paths, faults, budget, arrived, owed,
                   owedAtStop, snap>>
    /\ UNCHANGED <<handler, failed>>

\* _process_pending_changes is called again
AgainDrain ==
    /\ pc = "returned"
    /\ runs > 0
    /\ runs' = runs - 1
    /\ pc' = "check"
    /\ log' = <<>>
    /\ UNCHANGED <<world, state, persisted, pending, running, watching, ret, kind,
                   iter, drive_files, todo, todo_paths, faults, budget, arrived, owed,
                   owedAtStop, snap>>
    /\ UNCHANGED <<handler, failed>>

InitAnyWorld ==
    /\ localFiles \in InitLocals
    /\ remote \in InitRemotes
    /\ state \in InitStates

\* the pull pass, twice, the list and download calls failing or not
InitPull ==
    /\ InitAnyWorld
    /\ faults \in {{}, {"list", "download"}}
    /\ budget = [user |-> 0, other |-> 0]
    /\ pc = "list"
    /\ ret = "test"
    /\ InitEngine
    /\ running = FALSE
    /\ watching = FALSE
    /\ runs = 1

NextPull ==
    \/ PullList
    \/ PullEntry
    \/ PullTracked
    \/ PullSweep
    \/ PullReturn
    \/ AgainPull

SpecPull == InitPull /\ [][NextPull]_vars

\* initial_sync, twice, every remote call succeeding
InitInitialSync ==
    /\ InitAnyWorld
    /\ faults = {}
    /\ budget = [user |-> 0, other |-> 0]
    /\ pc = "start"
    /\ ret = "init"
    /\ InitEngine
    /\ running = FALSE
    /\ watching = FALSE
    /\ runs = 1

NextInitialSync ==
    \/ Start
    \/ PullList
    \/ PullEntry
    \/ PullTracked
    \/ PullSweep
    \/ PullReturn
    \/ InitialSyncWalk
    \/ InitialSyncReturn
    \/ AgainInitialSync

SpecInitialSync == InitInitialSync /\ [][NextInitialSync]_vars

\* the drain, twice, beside the watcher thread reporting the user's changes
InitQueue ==
    /\ \E sit \in [Paths -> Situations] :
          /\ localFiles = WorldLocal(sit)
          /\ remote = WorldRemote(sit)
          /\ state = WorldState(sit)
    /\ faults \in {{}, {"delete"}}
    /\ budget = [user |-> MaxQueueOps, other |-> 0]
    /\ pc = "check"
    /\ ret = "test"
    /\ InitEngine
    /\ watching = TRUE
    /\ running = TRUE
    /\ runs = 1

NextQueue ==
    \/ UserWrite
    \/ UserDelete
    \/ DrainCheck
    \/ DrainPop
    \/ DrainPush
    \/ DrainClear
    \/ AgainDrain

SpecQueue == InitQueue /\ [][NextQueue]_vars

(***************************************************************************)
(* The main loop of start() after initial_sync has returned: the cycles    *)
(* of drain and pull and the shutdown, with every remote call free to      *)
(* fail, local I/O free to raise, and the watcher's callback interleaved   *)
(* with the drain.                                                         *)
(***************************************************************************)
\* what can go wrong in a run: the per-file remote calls answer with an
\* HttpError, or exceptions that are no HttpError are raised
FaultSets == {Calls \ {"list"}, {"io"}}

InitCycle ==
    /\ \E sit \in [Paths -> Situations] :
          /\ localFiles = WorldLocal(sit)
          /\ remote = WorldRemote(sit)
          /\ state = WorldState(sit)
    /\ faults \in FaultSets
    /\ budget = [user |-> MaxCycleUser, other |-> MaxOther]
    /\ pc = "monitor"
    /\ ret = "init"
    /\ InitEngine
    /\ running = FALSE
    /\ watching = FALSE
    /\ runs = 0

NextCycle ==
    \/ StartMonitor
    \/ LoopCheck
    \/ DrainCheck
    \/ DrainPop
    \/ DrainPush
    \/ DrainPushRaise
    \/ DrainClear
    \/ PullList
    \/ PullEntry
    \/ PullTracked
    \/ PullSweep
    \/ PullReturn
    \/ PullRaise
    \/ Sleep
    \/ Interrupt
    \/ Stop
    \/ UserWrite
    \/ UserDelete
    \/ WatcherFetch
    \/ WatcherAdd
    \/ RemoteModify
    \/ RemoteDelete

SpecCycle == InitCycle /\ [][NextCycle]_vars

(***************************************************************************)
(* SyncState on its own: any calls of update_file_state and                *)
(* remove_file_state, each followed by its save(), which may fail.         *)
(***************************************************************************)
\* the values a caller can pass for a field: None, or a value
FieldArgs == {None} \cup 1..InitClock

\* update_file_state(path, drive_id, local_mtime, drive_mtime, checksum)
StoreUpdate ==
    /\ pc = "store"
    /\ runs > 0
    /\ runs' = runs - 1
    /\ \E p \in Paths, id \in {None} \cup 1..InitIds, lm \in FieldArgs,
          dm \in FieldArgs, ck \in FieldArgs :
          /\ state' = UpdateFileState(state, p, id, lm, dm, ck)
          /\ \E how \in SaveAnswers : persisted' = Save(persisted, state', how)
          /\ log' = << <<"update", p, id>> >>
    /\ UNCHANGED <<world, pending, running, watching, pc, ret, kind, iter,
                   drive_files, todo, todo_paths, faults, budget, arrived, owed,
                   owedAtStop, snap, handler, failed>>

\* remove_file_state(path): nothing is saved when the path has no record
StoreRemove ==
    /\ pc = "store"
    /\ runs > 0
    /\ runs' = runs - 1
    /\ \E p \in Paths :
          /\ state' = RemoveFileState(state, p)
          /\ IF p \in DOMAIN state
             THEN \E how \in SaveAnswers : persisted' = Save(persisted, state', how)
             ELSE persisted' = persisted
          /\ log' = << <<"remove", p, None>> >>
    /\ UNCHANGED <<world, pending, running, watching, pc, ret, kind, iter,
                   drive_files, todo, todo_paths, faults, budget, arrived, owed,
                   owedAtStop, snap, handler, failed>>

\* the store just loaded from a state file the program wrote
InitStore ==
    /\ \E sit \in [Paths -> {"absent", "synced"}] :
          /\ localFiles = WorldLocal(sit)
          /\ remote = WorldRemote(sit)
          /\ state = WorldState(sit)
    /\ faults \in {{}, {"save"}}
    /\ budget = [user |-> 0, other |-> 0]
    /\ pc = "store"
    /\ ret = "test"
    /\ InitEngine
    /\ running = FALSE
    /\ watching = FALSE
    /\ runs = MaxStoreOps

NextStore ==
    \/ StoreUpdate
    \/ StoreRemove

SpecStore == InitStore /\ [][NextStore]_vars

(***************************************************************************)
(* SyncState from its construction: load() of any state file, and then     *)
(* calls of get_file_state, update_file_state and remove_file_state.       *)
(***************************************************************************)
\* SyncState.__init__: self.state = {}, then load(): {} when the file is
\* not there or json.load raises, the value json.load returns otherwise
LoadState ==
    /\ pc = "load"
    /\ pc' = "store"
    /\ state' = IF "exists" \in DOMAIN persisted THEN EmptyMap ELSE Load(persisted)
    /\ log' = << <<"load", "", None>> >>
    /\ UNCHANGED <<world, persisted, pending, running, watching, ret, kind, iter,
                   drive_files, todo, todo_paths, faults, runs, budget, arrived, owed,
                   owedAtStop, snap, handler, failed>>

\* a call of the state store raises: the exception is recorded and the
\* call has changed nothing
StoreRaises(exc, p) ==
    /\ pc' = "raised"
    /\ runs' = runs - 1
    /\ log' = << <<exc, p, None>> >>
    /\ UNCHANGED <<world, state, persisted, pending, running, watching, ret, kind,
                   iter, drive_files, todo, todo_paths, faults, budget, arrived, owed,
                   owedAtStop, snap, handler, failed>>

\* get_file_state(path): self.state.get(path); None and a list have no get
LoadedGet ==
    /\ pc = "store"
    /\ runs > 0
    /\ \E p \in Paths :
          IF IsDict(state)
          THEN /\ runs' = runs - 1
               /\ log' = << <<"get", p,
                               IF HasDriveId(state, p) THEN state[p].drive_id ELSE None>> >>
               /\ UNCHANGED <<world, state, persisted, pending, running, watching, pc,
                              ret, kind, iter, drive_files, todo, todo_paths, faults,
                              budget, arrived, owed, owedAtStop, snap, handler, failed>>
          ELSE StoreRaises("AttributeError", p)

\* update_file_state(path, ...): `relative_path not in self.state` raises
\* on None, `self.state[relative_path] = {}` raises on a list
LoadedUpdate ==
    /\ pc = "store"
    /\ runs > 0
    /\ IF IsDict(state)
       THEN StoreUpdate
       ELSE \E p \in Paths : StoreRaises("TypeError", p)

\* remove_file_state(path): `relative_path in self.state` raises on None
\* and is False on an empty list
LoadedRemove ==
    /\ pc = "store"
    /\ runs > 0
    /\ IF IsDict(state)
       THEN StoreRemove
       ELSE \E p \in Paths :
               IF state.python = "null"
               THEN StoreRaises("TypeError", p)
               ELSE /\ runs' = runs - 1
                    /\ log' = << <<"remove", p, None>> >>
                    /\ UNCHANGED <<world, state, persisted, pending, running, watching,
                                   pc, ret, kind, iter, drive_files, todo, todo_paths,
                                   faults, budget, arrived, owed, owedAtStop, snap,
                                   handler, failed>>

\* what the state file can be when the program starts: not there, not
\* parseable, a document the program wrote, or the JSON text `null` or `[]`
StartDocuments ==
    {Absent, Unreadable, JsonValue("null"), JsonValue("array")} \cup
    {Dump(st) : st \in InitStates}

InitLoad ==
    /\ localFiles = EmptyMap
    /\ remote = EmptyMap
    /\ state = EmptyMap
    /\ persisted \in StartDocuments
    /\ nextId = InitIds + 1
    /\ clock = InitClock
    /\ faults = {}
    /\ budget = [user |-> 0, other |-> 0]
    /\ pc = "load"
    /\ ret = "test"
    /\ pending = EmptyMap
    /\ kind = "deleted"
    /\ iter = {}
    /\ drive_files = {}
    /\ todo = {}
    /\ todo_paths = {}
    /\ arrived = <<>>
    /\ owed = {}
    /\ owedAtStop = {}
    /\ snap = Snapshot
    /\ log = <<>>
    /\ handler = <<>>
    /\ failed = {}
    /\ running = FALSE
    /\ watching = FALSE
    /\ runs = MaxStoreOps

NextLoad ==
    \/ LoadState
    \/ LoadedGet
    \/ LoadedUpdate
    \/ LoadedRemove

SpecLoad == InitLoad /\ [][NextLoad]_vars

(***************************************************************************)
(* The program with every call succeeding and no shutdown, beside other    *)
(* clients that create, modify, rename and delete files of the remote      *)
(* root.                                                                   *)
(***************************************************************************)
\* another client renames a remote file: the id stays, the listing shows
\* the new name, with a new modifiedTime or with the old one
RemoteRename ==
    /\ budget.other > 0
    /\ budget' = [budget EXCEPT !.other = @ - 1]
    /\ \E id \in DOMAIN remote, n \in Paths :
          /\ n # remote[id].name
          /\ \/ /\ clock < MaxClock
                /\ clock' = clock + 1
                /\ remote' = [remote EXCEPT ![id].name = n, ![id].mtime = clock']
             \/ /\ clock' = clock
                /\ remote' = [remote EXCEPT ![id].name = n]
    /\ UNCHANGED <<localFiles, nextId, state, persisted, pending, running, watching,
                   pc, ret, kind, iter, drive_files, todo, todo_paths, faults, runs,
                   arrived, owed, owedAtStop, snap, log, handler>>
    /\ failed' = {}

\* another client creates a file in the remote root
RemoteCreate ==
    /\ budget.other > 0
    /\ clock < MaxClock
    /\ nextId <= MaxIds
    /\ budget' = [budget EXCEPT !.other = @ - 1]
    /\ clock' = clock + 1
    /\ nextId' = nextId + 1
    /\ \E n \in Paths :
          remote' = Put(remote, nextId, [name |-> n, data |-> clock', mtime |-> clock'])
    /\ UNCHANGED <<localFiles, state, persisted, pending, running, watching, pc, ret,
                   kind, iter, drive_files, todo, todo_paths, faults, runs, arrived,
                   owed, owedAtStop, snap, log, handler>>
    /\ failed' = {}

InitRemote ==
    /\ \E sit \in [Paths -> Situations] :
          /\ localFiles = WorldLocal(sit)
          /\ remote = WorldRemote(sit)
          /\ state = WorldState(sit)
    /\ faults = {}
    /\ budget = [user |-> MaxCycleUser, other |-> MaxRemoteOps]
    /\ pc = "start"
    /\ ret = "init"
    /\ InitEngine
    /\ running = FALSE
    /\ watching = FALSE
    /\ runs = 0

NextRemote ==
    \/ Start
    \/ PullList
    \/ PullEntry
    \/ PullTracked
    \/ PullSweep
    \/ PullReturn
    \/ InitialSyncWalk
    \/ InitialSyncReturn
    \/ StartMonitor
    \/ LoopCheck
    \/ DrainCheck
    \/ DrainPop
    \/ DrainPush
    \/ DrainClear
    \/ Sleep
    \/ UserWrite
    \/ UserDelete
    \/ RemoteModify
    \/ RemoteDelete
    \/ RemoteRename
    \/ RemoteCreate

SpecRemote == InitRemote /\ [][NextRemote]_vars

(***************************************************************************)
(* The main loop left alone: every call succeeds, the watcher reports the  *)
(* engine's own downloads and unlinks, and the other clients make their    *)
(* last change (a rename) at some time.  The loop turns for ever, and the  *)
(* timestamps, which the program only compares with each other, are        *)
(* renumbered as the run goes on, so that the clock never runs out.        *)
(***************************************************************************)
\* the timestamps and contents the folder, the remote root, the state map
\* and the entries still to be visited hold (contents are named by the
\* time of their writing)
Stamps ==
    (UNION {{localFiles[p].data, localFiles[p].mtime} : p \in DOMAIN localFiles}
     \cup UNION {{remote[i].data, remote[i].mtime} : i \in DOMAIN remote}
     \cup UNION {{state[p].local_mtime, state[p].drive_mtime, state[p].checksum} :
                    p \in DOMAIN state}
     \cup {f.modifiedTime : f \in todo}) \ {None}

\* the place of a stamp among those in use
Rank(v) == Cardinality({u \in Stamps : u <= v})

TidyFiles(files) ==
    [p \in DOMAIN files |->
        [data |-> Rank(files[p].data), mtime |-> Rank(files[p].mtime)]]
TidyRemote(rem) ==
    [i \in DOMAIN rem |->
        [name |-> rem[i].name, data |-> Rank(rem[i].data), mtime |-> Rank(rem[i].mtime)]]
TidyState(st) ==
    [p \in DOMAIN st |->
        [drive_id |-> st[p].drive_id, local_mtime |-> Rank(st[p].local_mtime),
         drive_mtime |-> Rank(st[p].drive_mtime), checksum |-> Rank(st[p].checksum)]]
TidyListing(fs) ==
    {[id |-> f.id, name |-> f.name, modifiedTime |-> Rank(f.modifiedTime)] : f \in fs}

\* the stamps in use are renumbered 1, 2, ... in their order, and the clock
\* is set to the last of them: no comparison the program makes changes
Tidy ==
    /\ \/ clock # Cardinality(Stamps)
       \/ \E v \in Stamps : Rank(v) # v
    /\ clock' = Cardinality(Stamps)
    /\ localFiles' = TidyFiles(localFiles)
    /\ remote' = TidyRemote(remote)
    /\ state' = TidyState(state)
    /\ persisted' = [persisted EXCEPT
                        !.members = {<<m[1], m[2],
                                       IF m[2] = "drive_id" THEN m[3] ELSE Rank(m[3])>> :
                                         m \in @}]
    /\ drive_files' = TidyListing(drive_files)
    /\ todo' = TidyListing(todo)
    /\ snap' = [state |-> TidyState(snap.state), localFiles |-> TidyFiles(snap.localFiles),
                remote |-> TidyRemote(snap.remote), budget |-> snap.budget]
    /\ UNCHANGED <<nextId, pending, running, watching, pc, ret, kind, iter, todo_paths,
                   faults, runs, budget, arrived, owed, owedAtStop, log, handler, failed>>

InitQuiet ==
    /\ \E sit \in [Paths -> Situations] :
          /\ localFiles = WorldLocal(sit)
          /\ remote = WorldRemote(sit)
          /\ state = WorldState(sit)
    /\ faults = {}
    /\ budget = [user |-> 0, other |-> MaxOther]
    /\ pc = "monitor"
    /\ ret = "init"
    /\ InitEngine
    /\ running = FALSE
    /\ watching = FALSE
    /\ runs = 0

\* the steps of the engine thread in the loop
LoopStep ==
    \/ StartMonitor
    \/ LoopCheck
    \/ DrainCheck
    \/ DrainPop
    \/ DrainPush
    \/ DrainClear
    \/ PullList
    \/ PullEntry
    \/ PullTracked
    \/ PullSweep
    \/ PullReturn
    \/ Sleep

NextQuiet ==
    \/ LoopStep
    \/ RemoteRename
    \/ Tidy

\* the engine thread goes on whenever it can (it waits for nothing but its
\* own calls and the sleep), and so does the renumbering
SpecQuiet == InitQuiet /\ [][NextQuiet]_vars /\ WF_vars(LoopStep) /\ WF_vars(Tidy)


(***************************************************************************)
(* Properties.                                                             *)
(***************************************************************************)
\* the (kind, path) pairs in the queue
Queued == {<<k, p>> : k \in DOMAIN pending, p \in Paths} \cap
          UNION {{<<k, p>> : p \in pending[k]} : k \in DOMAIN pending}

\* the pairs of the popped set the drain is iterating
InHand == IF pc = "iter" THEN {<<kind, p>> : p \in iter} ELSE {}

\* C1: no accepted local change is lost under any interleaving of the
\* watcher's enqueue with the drain: an event that was enqueued and has not
\* been passed to pushLocal since is still in the queue, or in the popped
\* set the drain is iterating.
C1_NoAcceptedChangeLost == owed \subseteq (Queued \cup InHand)


\* C2: on shutdown every local change that was enqueued before the shutdown
\* request has been passed to pushLocal at least once when stop() returns,
\* whatever position of the cycle the request arrived at.
C2_DeliveredBeforeStopped == pc = "stopped" => owedAtStop = {}


(***************************************************************************)
(* Properties of one pull pass (SpecPull).                                 *)
(***************************************************************************)
Ops(l) == {l[i][1] : i \in DOMAIN l}
PassDone == pc = "returned"

\* C3: when the list call fails, the pull is skipped: after the pass the
\* state map and the local files equal those before it, and nothing was
\* downloaded.
C3_FailedListSkipsPull ==
    (PassDone /\ "list_failed" \in Ops(log)) =>
        /\ state = snap.state
        /\ localFiles = snap.localFiles
        /\ Ops(log) \cap {"download", "download_failed", "unlink", "remove"} = {}


C6_PullIdempotent ==
    (runs = 0 /\ faults = {}) =>
        /\ state = snap.state
        /\ localFiles = snap.localFiles
        /\ Ops(log) \cap {"download", "download_failed", "unlink", "update", "remove"} = {}

(***************************************************************************)
(* Properties of initial_sync (SpecInitialSync).                           *)
(***************************************************************************)
InitialSyncDone == pc = "monitor"

\* the ids of the files of the remote root rem that carry the name n
Named(rem, n) == {i \in DOMAIN rem : rem[i].name = n}

\* C7: initial_sync uploads no local file whose name is already in the
\* remote root: afterwards a name the remote root had before is carried by
\* no more files than before.
C7_NoUploadOfExistingName ==
    (InitialSyncDone /\ runs = 1) =>
        \A n \in Paths :
            Named(snap.remote, n) # {} =>
                Cardinality(Named(remote, n)) <= Cardinality(Named(snap.remote, n))

\* the scenario of C8 at the start of the first initial_sync: L is in the
\* folder, has no record and no remote file of its name; R is one remote
\* file, has no record and no local file
Scenario(L, R) ==
    /\ L # R
    /\ L \in DOMAIN snap.localFiles
    /\ L \notin DOMAIN snap.state
    /\ Named(snap.remote, L) = {}
    /\ R \notin DOMAIN snap.localFiles
    /\ R \notin DOMAIN snap.state
    /\ Cardinality(Named(snap.remote, R)) = 1

Transfers(op, p) == {i \in DOMAIN log : log[i][1] = op /\ log[i][2] = p}

\* what the first initial_sync of the scenario has done when it returns
FirstInitialSyncOf(L, R) ==
    LET r == CHOOSE i \in Named(snap.remote, R) : TRUE
    IN  /\ Cardinality(Transfers("upload", L)) = 1
        /\ Transfers("upload", R) = {}
        /\ Cardinality(Transfers("download", R)) = 1
        /\ Transfers("download", L) = {}
        /\ Transfers("download_failed", R) = {}
        /\ DOMAIN state = {L, R}
        /\ state[L].drive_id \notin DOMAIN snap.remote
        /\ state[L].drive_id \in DOMAIN remote
        /\ remote[state[L].drive_id].name = L
        /\ remote[state[L].drive_id].data = localFiles[L].data
        /\ state[R].drive_id = r
        /\ state[R].drive_mtime = snap.remote[r].mtime
        /\ localFiles[R].data = snap.remote[r].data

\* C8: in the scenario the first initial_sync uploads L once (a record with
\* a fresh remoteId) and downloads R once (a record with its id and remote
\* modification time), and a second initial_sync right after it changes
\* neither the state map, nor the remote root, nor the folder.
C8_InitialSyncScenario ==
    /\ [](\A L, R \in Paths :
            (InitialSyncDone /\ runs = 1 /\ Scenario(L, R)) => FirstInitialSyncOf(L, R))
    /\ [][\A L, R \in Paths :
            (runs = 0 /\ Scenario(L, R)) =>
                /\ state' = state
                /\ remote' = remote
                /\ localFiles' = localFiles]_vars

\* the second initial_sync of the scenario has returned
C8_Witness ==
    \E L, R \in Paths :
        /\ InitialSyncDone
        /\ runs = 0
        /\ Scenario(L, R)
        /\ DOMAIN state = {L, R}

(***************************************************************************)
(* Properties of the state store (SpecStore).                              *)
(***************************************************************************)
\* C11: round trip and durability of the state store: when
\* update_file_state(path, ...) has returned, a fresh load() of the
\* persisted document has a record for the path equal to the one in memory,
\* and when remove_file_state(path) has returned a fresh load() has no
\* record for it, after any sequence of such calls and also when a save
\* attempt fails.
C11_StoreIsDurable ==
    log # <<>> =>
        LET p == log[1][2]
            loaded == Load(persisted)
        IN  IF log[1][1] = "update"
            THEN p \in DOMAIN loaded /\ loaded[p] = state[p]
            ELSE p \notin DOMAIN loaded

\* the same with every save succeeding: the round trip itself
RoundTripWhenSaved ==
    (log # <<>> /\ faults = {}) => Load(persisted) = state

(***************************************************************************)
(* Properties of the cycles of the main loop (SpecCycle).                  *)
(***************************************************************************)
\* the drain of a cycle has returned
DrainDone == pc = "list" /\ ret = "loop"

\* the pull of a cycle has returned
CycleDone == pc = "sleep"

\* C12: one bad file never aborts a pass.  Whatever fails for one file, the
\* drain has pushed every path it popped when it returns, and the pull has
\* visited every entry of its listing and swept every tracked path when it
\* returns (no record is left whose id is not in the listing).
C12_OneBadFileNeverAborts ==
    /\ DrainDone => iter = {}
    /\ CycleDone =>
          /\ todo = {}
          /\ todo_paths = {}
          /\ \A p \in DOMAIN state : state[p].drive_id \in drive_file_ids

\* the order of the positions within the try block of start(): the drain,
\* then the pull, then the sleep, then the test of the flag
CycleOrder ==
    {<<"loop", "check">>, <<"check", "pop">>, <<"check", "list">>, <<"pop", "iter">>,
     <<"iter", "iter">>, <<"iter", "list">>, <<"list", "entries">>,
     <<"entries", "entries">>, <<"entries", "sweep">>, <<"entries", "sleep">>,
     <<"sweep", "sweep">>, <<"sweep", "sleep">>, <<"sleep", "loop">>}

\* C13: no error leaves a cycle.  While the engine thread is in the try
\* block of start() it moves through the drain, the pull and the sleep of
\* each cycle in this order, and the step by which it leaves the block for
\* stop() is the shutdown request: it is never an exception raised by the
\* processing of a file or by the handling of the queue.
C13_NoErrorLeavesTheLoop ==
    [][InTry =>
          /\ (InTry' /\ pc' # pc) => <<pc, pc'>> \in CycleOrder
          /\ ~InTry' => (pc' = "stop" /\ "RuntimeError" \notin Ops(NewCalls))]_vars

\* C14: a failed transfer neither creates nor changes a record.  When
\* upload_file returns no id in a push, or download_file returns False in a
\* pull, the state map in memory and the persisted document are after the
\* processing of that file what they were before it.
C14_FailedTransferKeepsState ==
    [][(\E p \in Paths : FailedNow("upload", p) \/ FailedNow("download", p)) =>
          (state' = state /\ persisted' = persisted)]_vars

\* a cycle in which an upload and a download have failed
C14_Witness ==
    /\ CycleDone
    /\ \E i, j \in DOMAIN log :
          /\ log[i][1] = "upload" /\ log[i][3] = None
          /\ log[j][1] = "download_failed"

\* C15: the next cycle is the retry.  An upload or remote delete of a
\* drained change, or a download of a listed entry, that failed in an earlier
\* cycle has been attempted again when a later cycle ends, unless the folder
\* or the remote root has changed since: at the end of a cycle the only
\* failed operations still waiting are those that failed in this cycle.
C15_RetriedByNextCycle ==
    CycleDone => \A e \in failed : e[3] = 0

\* C16: a successful push writes the whole record.  When upload_file has
\* returned an id for a 'created' or 'modified' event of an existing file,
\* the record of the path has that id, the modification time and the
\* checksum of the local file, and the modification time the remote store
\* has for the id now; no field keeps an earlier value, also when the
\* metadata fetch returns nothing.
C16_PushWritesAllFour ==
    [][\A p \in Paths, x \in Ids :
          (\E i \in DOMAIN NewCalls : NewCalls[i] = <<"upload", p, x>>) =>
              /\ p \in DOMAIN state'
              /\ state'[p] = [drive_id    |-> x,
                              local_mtime |-> localFiles[p].mtime,
                              drive_mtime |-> remote'[x].mtime,
                              checksum    |-> CalculateChecksum(localFiles[p].data)]]_vars

IsPush(e) == e[1] \in {"push_deleted", "push_created", "push_modified"}

\* the entries log[i+1..j-1] that follow the push log[i]: its calls and effects
CallsOf(i) ==
    {j \in DOMAIN log : j > i /\ \A m \in (i + 1)..j : ~IsPush(log[m])}

LastPush(i) == IsPush(log[i]) /\ \A j \in DOMAIN log : j > i => ~IsPush(log[j])

\* C5: deletion propagates from the folder to the remote root.  Pushing a
\* 'deleted' event of a path whose record has remoteId X makes exactly one
\* remote call, delete(X), and removes the record: right after the push the
\* path has no record (and X is gone from the remote root when the call
\* succeeds), and whatever is pushed later in the drain for the same path,
\* no record of the path holds X again.
C5_LocalDeletionPropagates ==
    \A i \in DOMAIN log :
        (log[i][1] = "push_deleted" /\ log[i][3] # None) =>
            /\ {log[j] : j \in {m \in CallsOf(i) : log[m][1] \in {"delete", "upload"}}}
                  = {<<"delete", log[i][2], log[i][3]>>}
            /\ Cardinality({j \in CallsOf(i) : log[j][1] = "delete"}) = 1
            /\ LastPush(i) =>
                  /\ log[i][2] \notin DOMAIN state
                  /\ faults = {} => log[i][3] \notin DOMAIN remote
            /\ log[i][2] \in DOMAIN state => state[log[i][2]].drive_id # log[i][3]

\* a drain that pushed 'deleted' for a tracked path and then another kind
\* for the same path
C5_Witness ==
    \E i, j \in DOMAIN log :
        /\ i < j
        /\ log[i][1] = "push_deleted"
        /\ log[i][3] # None
        /\ log[j][1] = "push_created"
        /\ log[j][2] = log[i][2]
        /\ log[i][2] \in DOMAIN state

\* the events of path p among the arrived ones, in their order
ForPath(evs, p) == SelectSeq(evs, LAMBDA e : e[2] = p)

CreatedDeletedCreated(p) == << <<"created", p>>, <<"deleted", p>>, <<"created", p>> >>

C10_DeleteBeforeCreate ==
    /\ \A i, j \in DOMAIN log :
          (log[i][1] \in {"push_created", "push_modified"} /\ log[j][1] = "push_deleted")
              => j < i
    /\ \A p \in Paths :
          (/\ \E i \in DOMAIN log :
                 log[i][1] = "push_deleted" /\ log[i][2] = p /\ log[i][3] # None
           /\ \E j \in DOMAIN log :
                 /\ log[j][1] = "push_created"
                 /\ log[j][2] = p
                 /\ \E m \in CallsOf(j) : log[m][1] = "upload") =>
              /\ p \in DOMAIN state
              /\ state[p].drive_id \in DOMAIN remote
              /\ remote[state[p].drive_id].name = p

\* a drain that pushed 'deleted' and then 'created' for a tracked path that
\* was deleted and written again
C10_Witness ==
    \E p \in Paths :
        /\ \E i \in DOMAIN log :
              log[i][1] = "push_deleted" /\ log[i][2] = p /\ log[i][3] # None
        /\ \E j \in DOMAIN log :
              /\ log[j][1] = "push_created" /\ log[j][2] = p
              /\ \E m \in CallsOf(j) : log[m][1] = "upload"
        /\ p \in DOMAIN state

\* C18: a record goes only with its remote file.  When the push of a
\* 'deleted' event of a tracked path has called delete_file and the call
\* has failed (the file is still in the remote root), the record of the
\* path is kept.
C18_RecordKeptWhenDeleteFails ==
    [][\A p \in Paths : FailedNow("delete", p) => p \in DOMAIN state']_vars

(***************************************************************************)
(* Properties of a cycle with a change on both sides (SpecCycle).          *)
(***************************************************************************)
\* at the start of the cycle the remote file of tracked path p had a
\* modification the record does not know, and the drain of the cycle has
\* pushed a pending 'modified' of p; the user and the other client have
\* made no change since the start of the cycle
BothChanged(p) ==
    /\ p \in DOMAIN snap.state
    /\ p \in DOMAIN snap.localFiles
    /\ snap.state[p].drive_id \in DOMAIN snap.remote
    /\ snap.remote[snap.state[p].drive_id].mtime # snap.state[p].drive_mtime
    /\ \E i \in DOMAIN log : log[i] = <<"push_modified", p, snap.state[p].drive_id>>
    /\ budget = snap.budget

\* C19: the local push comes first and wins.  In every cycle of the loop
\* the pushes of the drain are made before the remote listing of the pull
\* is fetched; and when a path had a pending local modification and a
\* remote modification at the start of the cycle, then at the end of the
\* cycle the remote file has the content of the local file and the pull of
\* the cycle has not downloaded over the local file.
C19_LocalPushWins ==
    ret = "loop" =>
        /\ \A i, j \in DOMAIN log : (IsPush(log[i]) /\ log[j][1] = "list") => i < j
        /\ CycleDone =>
              \A p \in Paths :
                  BothChanged(p) =>
                      /\ snap.state[p].drive_id \in DOMAIN remote
                      /\ p \in DOMAIN localFiles
                      /\ remote[snap.state[p].drive_id].data = localFiles[p].data
                      /\ \A i \in DOMAIN log :
                            ~(log[i][1] \in {"download", "download_failed"} /\ log[i][2] = p)

(***************************************************************************)
(* Properties of the life cycle of the engine (Spec).                      *)
(***************************************************************************)
\* the state of the engine: 0 Stopped (start() not yet called), 1
\* Initializing (initial_sync, up to the start of the watcher), 2 Running
\* (the try block of start()), 3 Stopping (stop()), 4 Stopped (start() has
\* been left)
Phase ==
    CASE pc = "start" -> 0
      [] BeforeTry -> 1
      [] InTry -> 2
      [] pc \in {"stopped", "aborted"} -> 4
      [] OTHER -> 3

RemoteOps == {"upload", "delete", "download", "download_failed", "list"}

\* the step is the push of an event that has nothing to push: 'deleted' of
\* a path with no record or no drive_id in its record, or 'created' or
\* 'modified' of a path whose local file is not there
NothingToPush ==
    /\ NewCalls # <<>>
    /\ \/ NewCalls[1][1] = "push_deleted" /\ NewCalls[1][3] = None
       \/ /\ NewCalls[1][1] \in {"push_created", "push_modified"}
          /\ NewCalls[1][2] \notin DOMAIN localFiles

\* C21: the no-op cases of a push.  The push of a 'deleted' event for a
\* path that has no record, or a record with no drive_id, and the push of a
\* 'created' or 'modified' event for a path whose local file no longer
\* exists, make no remote call and leave the state map, its document and
\* the remote root as they were.
C21_NothingToPushIsNoOp ==
    [][NothingToPush =>
          /\ \A i \in DOMAIN NewCalls : NewCalls[i][1] \notin RemoteOps
          /\ state' = state
          /\ persisted' = persisted
          /\ remote' = remote]_vars

\* a drain has pushed 'deleted' for a path that was never uploaded and
\* 'created' for a path whose file was gone again
C21_Witness ==
    \E p \in Paths, i, j \in DOMAIN log :
        /\ log[i] = <<"push_deleted", p, None>>
        /\ log[j] = <<"push_created", p, None>>
        /\ p \notin DOMAIN localFiles
        /\ p \notin DOMAIN state

(***************************************************************************)
(* Properties of load() (SpecLoad).                                        *)
(***************************************************************************)
\* C22: load() never fails startup.  Whatever the state file is, load()
\* raises nothing; the state map is empty afterwards when the file is not
\* there or cannot be parsed, and is the mapping of the document when it
\* parses; and every later get, update and remove of the state store
\* returns as on a map of records, none raises.
C22_LoadNeverFails ==
    [][/\ pc = "load" =>
             /\ pc' = "store"
             /\ ~persisted.valid => state' = EmptyMap
             /\ persisted.valid => (IsDict(state') /\ Dump(state') = persisted)
       /\ pc = "store" => pc' = "store"]_vars

\* the same for the state files that are not there, cannot be parsed, or
\* hold an object of records
LoadOfAMapOrNothing ==
    [][("json" \notin DOMAIN persisted) =>
          /\ pc = "load" =>
                /\ pc' = "store"
                /\ ~persisted.valid => state' = EmptyMap
                /\ persisted.valid => (IsDict(state') /\ Dump(state') = persisted)
          /\ pc = "store" => pc' = "store"]_vars

(***************************************************************************)
(* Properties of the program beside the other clients (SpecRemote).        *)
(***************************************************************************)
\* C23: each remote file belongs to at most one path.  After any pushes
\* and pulls, with the other clients creating, modifying, renaming and
\* deleting remote files in between, no two distinct tracked paths have the
\* same drive_id in the state map.
C23_OnePathPerRemoteId ==
    \A p, q \in DOMAIN state : p # q => state[p].drive_id # state[q].drive_id

(***************************************************************************)
(* Properties of the pull beside the watcher (Spec).                       *)
(***************************************************************************)
\* an event of path p is in the queue: enqueued and not yet popped by a
\* drain
Enqueued(p) == \E k \in DOMAIN pending : p \in pending[k]

\* C24: the pull spares what the queue still owes.  No step of a pull
\* downloads over, or unlinks, a local file for whose path an event is in
\* the queue and not yet pushed; a local edit that has not been pushed is
\* not lost to a remote modification or deletion of the same path.
C24_PullSparesPending ==
    [][\A p \in Paths :
          (Enqueued(p) /\ p \in DOMAIN localFiles) =>
              ~\E i \in DOMAIN NewCalls :
                  /\ NewCalls[i][2] = p
                  /\ NewCalls[i][1] \in {"download", "download_failed", "unlink"}]_vars

(***************************************************************************)
(* Properties of the loop left alone (SpecQuiet).                          *)
(***************************************************************************)
\* the cycle in progress has made an upload, a download, a remote delete
\* or a local delete
Busy ==
    \E i \in DOMAIN log :
        log[i][1] \in {"upload", "download", "download_failed", "delete", "unlink"}

\* even renumbered, the stamps in use leave none for a further write
OutOfStamps == Cardinality(Stamps) >= MaxClock

\* C25: quiescence.  When the other clients and the user have made their
\* last change and every remote call succeeds, the loop reaches a cycle
\* that makes no upload, no download, no remote delete and no local delete,
\* and no later cycle makes one, the events the watcher emits for the
\* engine's own downloads and unlinks included (a run that has used up the
\* stamps of the model is left out).
C25_Quiescence == <>[](~Busy \/ OutOfStamps)

====
